---------------------------- MODULE Spec2Model ----------------------------
(***************************************************************************)
(* Model of the self-learning bridge simulator                             *)
(* (src/net-exp-bridge/src/bin/simulate.rs).                               *)
(*                                                                         *)
(* Three threads are wired by two unbounded mpsc channels (main, lines     *)
(* 435-461):                                                               *)
(*     orchestrator --Event--> bridge --Command--> facility                *)
(*                               ^                    |                    *)
(*                               +-------Event--------+                    *)
(* Each loop iteration of a thread (one recv and the whole match arm that  *)
(* handles it) is one action.  The Instant timestamps and the rolling      *)
(* counters that only feed info!() lines are not part of the state: no     *)
(* branch of the three actors reads them.                                  *)
(*                                                                         *)
(* The specifications share the variables:                                 *)
(*   Spec        the wired system built by main();                         *)
(*   FairSpec    Spec with fair scheduling of the three threads;           *)
(*   BridgeSpec  the bridge function alone, fed an arbitrary event stream; *)
(*   HolderSpec  the Holder alone, under arbitrary hold and release calls; *)
(*   OrchSpec    distribute and the orchestrator's replay loop alone;      *)
(*   AddrSpec    Address::try_from (lib.rs) applied to an input string.    *)
(***************************************************************************)
EXTENDS Naturals, Integers, Sequences, FiniteSets, TLC

(***************************************************************************)
(* Bounds of the model.                                                    *)
(***************************************************************************)
NumAddr == 3
NumSeg == 2
NumData == 1
\* the wired system: segments that occur in the two input files, and frames
NumInputSeg == 1
MaxFrames == 3
\* the bridge alone: events fed to it
MaxEvents == 4
\* the orchestrator alone: buckets of the replay window (ELAPSE_SEC * 1000)
NumBuckets == 3

(***************************************************************************)
(* Value types (lib.rs).  Addresses, segments and payloads are opaque to   *)
(* the simulator: it only compares them for equality and uses them as map  *)
(* keys, so small finite sets stand for the byte arrays.                   *)
(***************************************************************************)
Address == 1..NumAddr
Segment == 1..NumSeg
FrameData == 1..NumData
Frame == [src : Address, src_seg : Segment, dst : Address, data : FrameData]

\* the values the input files frame.rmp and addr_seg.rmp are drawn from
InputSegment == 1..NumInputSeg
InputFrame == {f \in Frame : f.src_seg \in InputSegment}

\* enum Event
Request(frame) == [type |-> "Request", frame |-> frame]
Success(addr, seg) == [type |-> "Success", addr |-> addr, seg |-> seg]
Failure(addr) == [type |-> "Failure", addr |-> addr]
Shutdown == [type |-> "Shutdown"]
Event ==
    {Request(f) : f \in Frame}
        \cup {Success(a, s) : a \in Address, s \in Segment}
        \cup {Failure(a) : a \in Address}
        \cup {Shutdown}

\* enum Command
Broadcast(addr) == [type |-> "Broadcast", addr |-> addr]
Dispatch(frame, seg) == [type |-> "Dispatch", frame |-> frame, seg |-> seg]
Discard(frame) == [type |-> "Discard", frame |-> frame]

\* enum BridgeStatRecord
StatRecord(kind, frame) == [kind |-> kind, frame |-> frame]

(***************************************************************************)
(* BTreeMap as a function whose domain is the key set.                     *)
(***************************************************************************)
EmptyMap == [k \in {} |-> 0]
MapInsert(m, k, v) == [x \in DOMAIN m \cup {k} |-> IF x = k THEN v ELSE m[x]]
MapRemove(m, k) == [x \in DOMAIN m \ {k} |-> m[x]]
\* every partial function from keys to vals
PartialMaps(keys, vals) == UNION {[d -> vals] : d \in SUBSET keys}

\* every sequence over s of length at most n
SeqUpTo(s, n) == UNION {[1..k -> s] : k \in 0..n}

RECURSIVE MapSeq(_, _)
\* [Op(x) : x in seq], in order
MapSeq(Op(_), seq) ==
    IF seq = <<>> THEN <<>> ELSE <<Op(Head(seq))>> \o MapSeq(Op, Tail(seq))

RECURSIVE CountSeq(_, _)
\* number of elements of seq that satisfy Test
CountSeq(Test(_), seq) ==
    IF seq = <<>> THEN 0
    ELSE (IF Test(Head(seq)) THEN 1 ELSE 0) + CountSeq(Test, Tail(seq))

RECURSIVE FoldLeft(_, _, _)
\* Op(... Op(Op(acc, seq[1]), seq[2]) ..., seq[n])
FoldLeft(Op(_, _), acc, seq) ==
    IF seq = <<>> THEN acc ELSE FoldLeft(Op, Op(acc, Head(seq)), Tail(seq))

(***************************************************************************)
(* Holder: BTreeMap<Address, Vec<Frame>>.                                  *)
(***************************************************************************)
\* mutant of exist_addr: the Holder never reports a waiting destination
exist_addr_never(h, addr) == FALSE

exist_addr(h, addr) == addr \in DOMAIN h

\* mutant of hold: the new frame replaces the frames already waiting
hold_replace(h, frame) == MapInsert(h, frame.dst, <<frame>>)

\* mutant of hold: the new frame goes to the front of the waiting frames
hold_prepend(h, frame) ==
    MapInsert(h, frame.dst,
        <<frame>> \o (IF frame.dst \in DOMAIN h THEN h[frame.dst] ELSE <<>>))

hold(h, frame) ==
    MapInsert(h, frame.dst,
        Append(IF frame.dst \in DOMAIN h THEN h[frame.dst] ELSE <<>>, frame))

\* the frames handed back by release: map.remove(&addr).unwrap_or_default()
\* mutant of release: the waiting frames come out newest first
release_reversed(h, addr) ==
    IF addr \in DOMAIN h
    THEN [i \in 1..Len(h[addr]) |-> h[addr][Len(h[addr]) + 1 - i]]
    ELSE <<>>

release(h, addr) == IF addr \in DOMAIN h THEN h[addr] ELSE <<>>

\* mutant of released: release hands the frames back and keeps the key
released_keep(h, addr) == h

\* mutant of released: release empties the vector and keeps the key
released_empty(h, addr) == IF addr \in DOMAIN h THEN MapInsert(h, addr, <<>>) ELSE h

\* the Holder left behind by release
released(h, addr) == MapRemove(h, addr)

len(h) == Cardinality(DOMAIN h)

(***************************************************************************)
(* BridgeStat and BridgePendingStat (their records vectors).               *)
(***************************************************************************)
stat_broadcast(st, frame) == Append(st, StatRecord("Broadcast", frame))
stat_dispatch(st, frame) == Append(st, StatRecord("Dispatch", frame))
stat_discard(st, frame) == Append(st, StatRecord("Discard", frame))
rec(ps, count) == Append(ps, count)

RECURSIVE latency_scan(_, _, _, _)
\* lines 147-160: the loop over records.zip(times) from record k on; the
\* time of a record is its position in the records vector (times are pushed
\* together with the records and never decrease)
latency_scan(records, k, hold_map, latencies) ==
    IF k > Len(records) THEN latencies
    ELSE LET frame == records[k].frame IN
         IF records[k].kind = "Broadcast"
         THEN latency_scan(records, k + 1, MapInsert(hold_map, frame, k), latencies)
         ELSE IF frame \in DOMAIN hold_map
         THEN latency_scan(records, k + 1, MapRemove(hold_map, frame),
                           Append(latencies, <<hold_map[frame], k - hold_map[frame]>>))
         ELSE latency_scan(records, k + 1, hold_map, latencies)

RECURSIVE latency_scan_keep(_, _, _, _)
\* latency_scan without the removal of the matched entry from hold_map
latency_scan_keep(records, k, hold_map, latencies) ==
    IF k > Len(records) THEN latencies
    ELSE LET frame == records[k].frame IN
         IF records[k].kind = "Broadcast"
         THEN latency_scan_keep(records, k + 1, MapInsert(hold_map, frame, k),
                                latencies)
         ELSE IF frame \in DOMAIN hold_map
         THEN latency_scan_keep(records, k + 1, hold_map,
                                Append(latencies, <<hold_map[frame], k - hold_map[frame]>>))
         ELSE latency_scan_keep(records, k + 1, hold_map, latencies)

\* mutant of export_latency_scatter: hold_map.get instead of hold_map.remove
export_latency_scatter_keep(records) == latency_scan_keep(records, 1, EmptyMap, <<>>)

\* lines 144-164: the <<begin, latency>> entries written to sc_latency.pkl
export_latency_scatter(records) == latency_scan(records, 1, EmptyMap, <<>>)

VARIABLES
    frames,         \* main: the frame sequence loaded from frame.rmp
    truth,          \* main: the ground-truth map loaded from addr_seg.rmp
    sent,           \* orchestrator: frames sent so far
    orch_pc,        \* orchestrator: "run", "done" or "panic"
    inbox,          \* the Event channel (te -> re)
    outbox,         \* the Command channel (tc -> rc)
    mapping,        \* bridge: the learning table
    pending,        \* bridge: the Holder
    stat,           \* bridge: BridgeStat.records
    pending_stat,   \* bridge: BridgePendingStat.records
    bridge_pc,      \* bridge: "run", "done" or "panic"
    cur_n,          \* facility: terminal commands consumed
    fac_pc,         \* facility: "run", "done" or "panic"
    processed,      \* history: the bridge's completed steps, in order
    emitted,        \* history: every command the bridge sent, with its step
    buckets,        \* orchestrator: the frames cut into buckets by distribute
    last,           \* orchestrator: buckets replayed so far
    cur,            \* orchestrator: the latest clock reading, in milliseconds
    flushed,        \* history: the bucket indices replayed, in order
    sc_latency,     \* bridge: the entries written to sc_latency.pkl
    exports,        \* bridge: how often the statistics were exported
    consumed,       \* history: the commands the facility consumed, in order
    replied,        \* history: every event the facility sent, with its command
    value,          \* Address::try_from: the input string
    parsed          \* Address::try_from: the result

vars == <<frames, truth, sent, orch_pc, inbox, outbox, mapping, pending, stat,
          pending_stat, bridge_pc, cur_n, fac_pc, processed, emitted,
          buckets, last, cur, flushed, sc_latency, exports, consumed, replied,
          value, parsed>>

\* the replay loop's locals (lines 310-312, 316-317)
loopVars == <<buckets, last, cur, flushed>>
orchVars == <<sent, orch_pc, loopVars>>
bridgeVars == <<mapping, pending, stat, pending_stat, bridge_pc, sc_latency,
                exports>>
facVars == <<cur_n, fac_pc>>
histVars == <<processed, emitted, consumed, replied>>
\* the variables of the library functions checked on their own
libVars == <<value, parsed>>

(***************************************************************************)
(* The bridge.  Its local state is the record                              *)
(*   [mapping, pending, stat, pending_stat];                               *)
(* each handler below is one arm of the match at lines 213-266 and yields  *)
(* the local state after the arm together with the commands it sends, in   *)
(* sending order.                                                          *)
(***************************************************************************)
BridgeState(m, p, st, ps, cmds) ==
    [mapping |-> m, pending |-> p, stat |-> st, pending_stat |-> ps, cmds |-> cmds]

\* mutant of learn: the latest src_seg always replaces the learned one
learn_last_wins(m, frame) == MapInsert(m, frame.src, frame.src_seg)

\* mutant of learn: the destination is learned in place of the source
learn_dst(m, frame) ==
    IF frame.dst \notin DOMAIN m THEN MapInsert(m, frame.dst, frame.src_seg) ELSE m

\* lines 215-218: correlate the source address with the incoming segment
learn(m, frame) ==
    IF frame.src \notin DOMAIN m THEN MapInsert(m, frame.src, frame.src_seg) ELSE m

\* mutant of OnRequest: a known destination gets the frame on the frame's own
\* incoming segment
OnRequest_to_src_seg(m, p, st, ps, frame) ==
    LET m1 == learn(m, frame) IN
    IF frame.dst \in DOMAIN m1
    THEN BridgeState(m1, p, stat_dispatch(st, frame), ps,
                     <<Dispatch(frame, frame.src_seg)>>)
    ELSE IF ~exist_addr(p, frame.dst)
    THEN BridgeState(m1, hold(p, frame), stat_broadcast(st, frame),
                     rec(ps, len(p)), <<Broadcast(frame.dst)>>)
    ELSE BridgeState(m1, hold(p, frame), stat_broadcast(st, frame),
                     rec(ps, len(p)), <<>>)

\* mutant of OnRequest: the destination is looked up before the source is
\* learned
OnRequest_resolve_first(m, p, st, ps, frame) ==
    LET m1 == learn(m, frame) IN
    IF frame.dst \in DOMAIN m
    THEN BridgeState(m1, p, stat_dispatch(st, frame), ps,
                     <<Dispatch(frame, m[frame.dst])>>)
    ELSE IF ~exist_addr(p, frame.dst)
    THEN BridgeState(m1, hold(p, frame), stat_broadcast(st, frame),
                     rec(ps, len(p)), <<Broadcast(frame.dst)>>)
    ELSE BridgeState(m1, hold(p, frame), stat_broadcast(st, frame),
                     rec(ps, len(p)), <<>>)

\* mutant of OnRequest: the depth is sampled after the frame is pushed
OnRequest_sample_after(m, p, st, ps, frame) ==
    LET m1 == learn(m, frame) IN
    IF frame.dst \in DOMAIN m1
    THEN BridgeState(m1, p, stat_dispatch(st, frame), ps,
                     <<Dispatch(frame, m1[frame.dst])>>)
    ELSE IF ~exist_addr(p, frame.dst)
    THEN BridgeState(m1, hold(p, frame), stat_broadcast(st, frame),
                     rec(ps, len(hold(p, frame))), <<Broadcast(frame.dst)>>)
    ELSE BridgeState(m1, hold(p, frame), stat_broadcast(st, frame),
                     rec(ps, len(hold(p, frame))), <<>>)

\* lines 214-237: Event::Request(frame)
OnRequest(m, p, st, ps, frame) ==
    LET m1 == learn(m, frame) IN
    IF frame.dst \in DOMAIN m1
    THEN BridgeState(m1, p, stat_dispatch(st, frame), ps,
                     <<Dispatch(frame, m1[frame.dst])>>)
    ELSE IF ~exist_addr(p, frame.dst)
    THEN BridgeState(m1, hold(p, frame), stat_broadcast(st, frame),
                     rec(ps, len(p)), <<Broadcast(frame.dst)>>)
    ELSE BridgeState(m1, hold(p, frame), stat_broadcast(st, frame),
                     rec(ps, len(p)), <<>>)

\* mutant of resolve: a learned address keeps its segment
resolve_keep(m, address, segment) ==
    IF address \in DOMAIN m THEN m ELSE MapInsert(m, address, segment)

\* line 240: mapping.insert(address, segment)
resolve(m, address, segment) == MapInsert(m, address, segment)

\* mutant of OnSuccess: the waiting frames are dispatched and stay in the Holder
OnSuccess_keep_held(m, p, st, ps, address, segment) ==
    LET out == release(p, address)
    IN  BridgeState(resolve(m, address, segment), p,
                    FoldLeft(stat_dispatch, st, out), rec(ps, len(p)),
                    MapSeq(LAMBDA f : Dispatch(f, segment), out))

\* lines 238-248: Event::Success(address, segment)
OnSuccess(m, p, st, ps, address, segment) ==
    LET out == release(p, address)
        p1 == released(p, address)
    IN  BridgeState(resolve(m, address, segment), p1,
                    FoldLeft(stat_dispatch, st, out), rec(ps, len(p1)),
                    MapSeq(LAMBDA f : Dispatch(f, segment), out))

\* mutant of OnFailure: a failed probe also forgets the address
OnFailure_forget(m, p, st, ps, address) ==
    LET out == release(p, address)
        p1 == released(p, address)
    IN  BridgeState(MapRemove(m, address), p1, FoldLeft(stat_discard, st, out),
                    rec(ps, len(p1)), MapSeq(Discard, out))

\* mutant of OnFailure: every waiting frame is discarded twice
OnFailure_twice(m, p, st, ps, address) ==
    LET out == release(p, address)
        p1 == released(p, address)
    IN  BridgeState(m, p1, FoldLeft(stat_discard, st, out \o out),
                    rec(ps, len(p1)), MapSeq(Discard, out \o out))

\* mutant of OnFailure: a failed probe is ignored, the frames stay held
OnFailure_ignore(m, p, st, ps, address) == BridgeState(m, p, st, ps, <<>>)

\* lines 249-257: Event::Failure(address)
OnFailure(m, p, st, ps, address) ==
    LET out == release(p, address)
        p1 == released(p, address)
    IN  BridgeState(m, p1, FoldLeft(stat_discard, st, out), rec(ps, len(p1)),
                    MapSeq(Discard, out))

\* lines 258-265: Event::Shutdown (the exports write files only)
OnShutdown(m, p, st, ps) == BridgeState(m, p, st, ps, <<>>)

\* the arm of the match that handles ev
Handle(m, p, st, ps, ev) ==
    CASE ev.type = "Request" -> OnRequest(m, p, st, ps, ev.frame)
      [] ev.type = "Success" -> OnSuccess(m, p, st, ps, ev.addr, ev.seg)
      [] ev.type = "Failure" -> OnFailure(m, p, st, ps, ev.addr)
      [] ev.type = "Shutdown" -> OnShutdown(m, p, st, ps)

\* history entry of a completed bridge step: the event, and the learning table
\* and the key set of the Holder as they were when the event was received
StepRecord(ev) == [ev |-> ev, mapping |-> mapping, holding |-> DOMAIN pending]

(***************************************************************************)
(* One iteration of the loop at line 212: receive the head of the Event    *)
(* channel and run its arm.  A tc.send(..).unwrap() on a channel whose     *)
(* receiver is gone panics the thread, which drops its locals.             *)
(***************************************************************************)
BridgeStep ==
    /\ LET ev == Head(inbox)
           b == Handle(mapping, pending, stat, pending_stat, ev)
           step == Len(processed) + 1
       IN  /\ inbox' = Tail(inbox)
           /\ IF b.cmds # <<>> /\ fac_pc # "run"
              THEN /\ bridge_pc' = "panic"
                   /\ UNCHANGED <<mapping, pending, stat, pending_stat, outbox,
                                  processed, emitted, sc_latency, exports>>
              ELSE /\ mapping' = b.mapping
                   /\ pending' = b.pending
                   /\ stat' = b.stat
                   /\ pending_stat' = b.pending_stat
                   /\ outbox' = outbox \o b.cmds
                   /\ bridge_pc' = IF ev.type = "Shutdown" THEN "done" ELSE "run"
                   /\ processed' = Append(processed, StepRecord(ev))
                   /\ emitted' = emitted \o
                          [i \in 1..Len(b.cmds) |-> [step |-> step, cmd |-> b.cmds[i]]]
                   /\ sc_latency' = IF ev.type = "Shutdown"
                                    THEN export_latency_scatter(b.stat)
                                    ELSE sc_latency
                   /\ exports' = IF ev.type = "Shutdown" THEN exports + 1 ELSE exports
    /\ UNCHANGED <<frames, truth, orchVars, facVars, consumed, replied, libVars>>

\* line 212: re.recv() hands over an event of this type
Receives(type) ==
    /\ bridge_pc = "run"
    /\ inbox # <<>>
    /\ Head(inbox).type = type

BridgeRequest ==
    /\ Receives("Request")
    /\ BridgeStep

BridgeSuccess ==
    /\ Receives("Success")
    /\ BridgeStep

BridgeFailure ==
    /\ Receives("Failure")
    /\ BridgeStep

BridgeShutdown ==
    /\ Receives("Shutdown")
    /\ BridgeStep

Bridge == BridgeRequest \/ BridgeSuccess \/ BridgeFailure \/ BridgeShutdown


(***************************************************************************)
(* The orchestrator (lines 307-343).  distribute() cuts frame_seq into     *)
(* consecutive slices and the replay loop sends the buckets in index       *)
(* order, so its sends are the frames of frame_seq in order (OrchSpec      *)
(* below models the cutting and the loop); each                            *)
(* te.send(Event::Request(..)) at lines 321 and 329 is one step.           *)
(***************************************************************************)
OrchSend ==
    /\ orch_pc = "run"
    /\ sent < Len(frames)
    /\ IF bridge_pc # "run"
       THEN /\ orch_pc' = "panic"
            /\ UNCHANGED <<sent, inbox>>
       ELSE /\ inbox' = Append(inbox, Request(frames[sent + 1]))
            /\ sent' = sent + 1
            /\ UNCHANGED orch_pc
    /\ UNCHANGED <<frames, truth, outbox, bridgeVars, facVars, histVars,
                   loopVars, libVars>>

\* line 324: break once the tail has been flushed
OrchExit ==
    /\ orch_pc = "run"
    /\ sent = Len(frames)
    /\ orch_pc' = "done"
    /\ UNCHANGED <<frames, truth, sent, inbox, outbox, bridgeVars, facVars,
                   histVars, loopVars, libVars>>

Orchestrator == OrchSend \/ OrchExit

(***************************************************************************)
(* The facility (lines 385-420); count is frames.len() (line 444).         *)
(***************************************************************************)
\* mutant of answer: the facility answers for the next address
answer_next(gt, addr) ==
    LET other == (addr % NumAddr) + 1
    IN  IF other \in DOMAIN gt THEN Success(other, gt[other]) ELSE Failure(other)

\* mutant of answer: every probe fails
answer_failure(gt, addr) == Failure(addr)

\* lines 392-400: the answer to Command::Broadcast(addr)
answer(gt, addr) ==
    IF addr \in DOMAIN gt THEN Success(addr, gt[addr]) ELSE Failure(addr)

\* mutant of count_terminal: a Broadcast is counted as well
count_terminal_all(n, type) == n + 1

\* mutant of count_terminal: a Dispatch counts twice
count_terminal_double(n, type) ==
    IF type = "Dispatch" THEN n + 2 ELSE IF type = "Discard" THEN n + 1 ELSE n

\* lines 401-408: cur_n after the arm for a command of this type
count_terminal(n, type) == IF type \in {"Dispatch", "Discard"} THEN n + 1 ELSE n

\* one iteration of the loop at line 390, with the check at lines 414-417
FacilityStep ==
    /\ LET cmd == Head(outbox)
           type == cmd.type
           reply == IF type = "Broadcast" THEN <<answer(truth, cmd.addr)>> ELSE <<>>
           n == count_terminal(cur_n, type)
           fin == n = Len(frames)
           evs == reply \o (IF fin THEN <<Shutdown>> ELSE <<>>)
       IN  /\ outbox' = Tail(outbox)
           /\ cur_n' = n
           /\ consumed' = Append(consumed, cmd)
           /\ IF evs # <<>> /\ bridge_pc # "run"
              THEN /\ fac_pc' = "panic"
                   /\ UNCHANGED <<inbox, replied>>
              ELSE /\ inbox' = inbox \o evs
                   /\ fac_pc' = IF fin THEN "done" ELSE "run"
                   /\ replied' = replied \o
                          [i \in 1..Len(evs) |-> [at |-> Len(consumed) + 1, ev |-> evs[i]]]
    /\ UNCHANGED <<frames, truth, orchVars, bridgeVars, processed, emitted, libVars>>

\* line 390: rc.recv() hands over a command of this type
Consumes(type) ==
    /\ fac_pc = "run"
    /\ outbox # <<>>
    /\ Head(outbox).type = type

FacilityBroadcast ==
    /\ Consumes("Broadcast")
    /\ FacilityStep

FacilityDispatch ==
    /\ Consumes("Dispatch")
    /\ FacilityStep

FacilityDiscard ==
    /\ Consumes("Discard")
    /\ FacilityStep

Facility == FacilityBroadcast \/ FacilityDispatch \/ FacilityDiscard

(***************************************************************************)
(* The wired system (main, lines 435-461).                                 *)
(***************************************************************************)
BridgeInit ==
    /\ inbox = <<>>
    /\ outbox = <<>>
    /\ mapping = EmptyMap
    /\ pending = EmptyMap
    /\ stat = <<>>
    /\ pending_stat = <<>>
    /\ bridge_pc = "run"
    /\ processed = <<>>
    /\ emitted = <<>>
    /\ sc_latency = <<>>
    /\ exports = 0

\* facility (entry): nothing counted, consumed or sent yet
FacilityInit ==
    /\ cur_n = 0
    /\ fac_pc = "run"
    /\ consumed = <<>>
    /\ replied = <<>>

\* the replay loop is not part of this specification
NoLoop ==
    /\ buckets = <<>>
    /\ last = 0
    /\ cur = 0
    /\ flushed = <<>>

\* Address::try_from is not part of this specification
NoLib ==
    /\ value = <<>>
    /\ parsed = [tag |-> "none"]

Init ==
    /\ frames \in SeqUpTo(InputFrame, MaxFrames)
    /\ truth \in PartialMaps(Address, InputSegment)
    /\ sent = 0
    /\ orch_pc = "run"
    /\ FacilityInit
    /\ BridgeInit
    /\ NoLoop
    /\ NoLib

Next == Orchestrator \/ Bridge \/ Facility

Spec == Init /\ [][Next]_vars

\* the three actors are OS threads: each one that can step eventually does
FairSpec ==
    Spec /\ WF_vars(Orchestrator) /\ WF_vars(Bridge) /\ WF_vars(Facility)

(***************************************************************************)
(* The bridge alone: bridge(tc, re) driven by any event stream of at most  *)
(* MaxEvents events, the receiver of its commands staying alive.           *)
(***************************************************************************)
EnvInit ==
    /\ frames = <<>>
    /\ truth = EmptyMap
    /\ sent = 0
    /\ orch_pc = "done"
    /\ FacilityInit
    /\ BridgeInit
    /\ NoLoop
    /\ NoLib

EnvSend ==
    /\ bridge_pc = "run"
    /\ inbox = <<>>
    /\ Len(processed) < MaxEvents
    /\ \E ev \in Event : inbox' = <<ev>>
    /\ UNCHANGED <<frames, truth, orchVars, outbox, bridgeVars, facVars, histVars,
                   libVars>>

BridgeNext == EnvSend \/ Bridge

BridgeSpec == EnvInit /\ [][BridgeNext]_vars

(***************************************************************************)
(* The Holder alone (lines 37-66): any sequence of at most MaxEvents hold  *)
(* and release calls on a Holder that starts empty.  The calls are logged  *)
(* in processed.                                                           *)
(***************************************************************************)
\* Holder::hold(frame)
HolderHold ==
    /\ Len(processed) < MaxEvents
    /\ \E frame \in Frame :
          /\ pending' = hold(pending, frame)
          /\ processed' = Append(processed, [op |-> "hold", frame |-> frame])
    /\ UNCHANGED <<frames, truth, orchVars, inbox, outbox, mapping, stat,
                   pending_stat, bridge_pc, sc_latency, exports, facVars, emitted,
                   consumed, replied, libVars>>

\* Holder::release(addr)
HolderRelease ==
    /\ Len(processed) < MaxEvents
    /\ \E addr \in Address :
          /\ pending' = released(pending, addr)
          /\ processed' = Append(processed,
                 [op |-> "release", addr |-> addr, out |-> release(pending, addr)])
    /\ UNCHANGED <<frames, truth, orchVars, inbox, outbox, mapping, stat,
                   pending_stat, bridge_pc, sc_latency, exports, facVars, emitted,
                   consumed, replied, libVars>>

HolderNext == HolderHold \/ HolderRelease

HolderSpec == EnvInit /\ [][HolderNext]_vars

(***************************************************************************)
(* The orchestrator alone (lines 290-343): distribute and the replay loop, *)
(* the receiver of its events staying alive.  One action is one iteration  *)
(* of the loop at line 313 with the clock reading it takes at line 314.    *)
(***************************************************************************)
\* a clock reading past the end of the window
MaxClock == NumBuckets + 1

RECURSIVE Concat(_)
\* the sequences of ss joined in order
Concat(ss) == IF ss = <<>> THEN <<>> ELSE Head(ss) \o Concat(Tail(ss))

\* line 294: the cut position pos of every bucket, for a frame sequence of
\* length n.  dist is a cumulative distribution function with dist(0) = 0,
\* so the positions start at 0 and never decrease; every such choice of
\* positions is covered.
Cuts(n) ==
    {c \in [1..NumBuckets -> 0..n] :
        /\ c[1] = 0
        /\ \A i \in 1..(NumBuckets - 1) : c[i] <= c[i + 1]}

\* mutant of distribute: the frames after the last cut are dropped
distribute_no_tail(frame_seq, cuts) ==
    [i \in 1..Len(cuts) |->
        SubSeq(frame_seq, (IF i = 1 THEN 0 ELSE cuts[i - 1]) + 1, cuts[i])]

\* lines 290-304: bucket i gets frame_seq[last_pos..pos], the last bucket
\* also gets what is left after the last cut
distribute(frame_seq, cuts) ==
    LET n == Len(cuts)
        rest == SubSeq(frame_seq, cuts[n] + 1, Len(frame_seq))
    IN  [i \in 1..n |->
            SubSeq(frame_seq, (IF i = 1 THEN 0 ELSE cuts[i - 1]) + 1, cuts[i])
                \o (IF i = n THEN rest ELSE <<>>)]

\* line 309
OrchDistribute ==
    /\ orch_pc = "start"
    /\ \E c \in Cuts(Len(frames)) : buckets' = distribute(frames, c)
    /\ orch_pc' = "run"
    /\ UNCHANGED <<frames, truth, sent, last, cur, flushed, inbox, outbox,
                   bridgeVars, facVars, histVars, libVars>>

\* lines 314-334: one iteration of the loop that reads the clock as t
\* (Rust's frame_seq[from..to] is buckets from + 1 .. to here)
OrchTick(t) ==
    LET n == Len(buckets)
        to == IF t >= n THEN n ELSE IF t > last THEN t ELSE last
        out == Concat(SubSeq(buckets, last + 1, to))
    IN  /\ cur' = t
        /\ inbox' = inbox \o MapSeq(Request, out)
        /\ sent' = sent + Len(out)
        /\ flushed' = flushed \o [i \in 1..(to - last) |-> last + i]
        /\ last' = IF t >= n THEN last ELSE to
        /\ orch_pc' = IF t >= n THEN "done" ELSE "run"
        /\ UNCHANGED <<frames, truth, buckets, outbox, bridgeVars, facVars,
                       histVars, libVars>>

\* the clock never goes back (Instant is monotonic)
Reads(t) == orch_pc = "run" /\ t \in cur..MaxClock

\* lines 317-325: the window is over, the remaining buckets are sent
OrchFlush ==
    \E t \in 0..MaxClock :
        /\ Reads(t)
        /\ t >= Len(buckets)
        /\ OrchTick(t)

\* lines 326-334: the buckets that became due are sent
OrchReplay ==
    \E t \in 0..MaxClock :
        /\ Reads(t)
        /\ t < Len(buckets)
        /\ t > last
        /\ OrchTick(t)

\* no bucket became due since the last iteration
OrchWait ==
    \E t \in 0..MaxClock :
        /\ Reads(t)
        /\ t < Len(buckets)
        /\ t <= last
        /\ OrchTick(t)

OrchInit ==
    /\ frames \in SeqUpTo(InputFrame, MaxFrames)
    /\ truth = EmptyMap
    /\ sent = 0
    /\ orch_pc = "start"
    /\ NoLoop
    /\ FacilityInit
    /\ BridgeInit
    /\ NoLib

OrchNext == OrchDistribute \/ OrchFlush \/ OrchReplay \/ OrchWait

OrchSpec == OrchInit /\ [][OrchNext]_vars

(***************************************************************************)
(* Address::try_from(&str) (lib.rs, lines 20-34).  A &str is a sequence of *)
(* characters; "eacute" stands for a character whose UTF-8 encoding takes  *)
(* two bytes, every other character takes one.  str::len and the range     *)
(* indexing &value[a..b] count bytes, and indexing panics when a or b is   *)
(* not on a character boundary.                                            *)
(***************************************************************************)
\* the value of a hexadecimal digit (char::to_digit(16)), -1 for any other
\* character
HexVal(c) ==
    CASE c = "0" -> 0
      [] c = "a" -> 10
      [] c = "F" -> 15
      [] OTHER -> -1

utf8_len(c) == IF c = "eacute" THEN 2 ELSE 1

RECURSIVE byte_len(_)
\* str::len
byte_len(str) == IF str = <<>> THEN 0 ELSE utf8_len(Head(str)) + byte_len(Tail(str))

\* the byte offset at which the i-th character starts
byte_offset(str, i) == byte_len(SubSeq(str, 1, i - 1))

\* str::is_char_boundary
is_char_boundary(str, o) == \E i \in 1..(Len(str) + 1) : byte_offset(str, i) = o

\* &str[a..b] for a and b on character boundaries
str_slice(str, a, b) ==
    LET at == {i \in 1..Len(str) : a <= byte_offset(str, i) /\ byte_offset(str, i) < b}
    IN  IF at = {} THEN <<>>
        ELSE SubSeq(str, CHOOSE i \in at : \A j \in at : i <= j,
                         CHOOSE i \in at : \A j \in at : j <= i)

RECURSIVE radix16(_, _)
\* the digits folded left to right, -1 at a character that is no digit
radix16(digits, acc) ==
    IF digits = <<>> THEN acc
    ELSE IF HexVal(Head(digits)) < 0 THEN -1
    ELSE radix16(Tail(digits), 16 * acc + HexVal(Head(digits)))

\* u8::from_str_radix(src, 16): an empty string and a lone sign are errors, a
\* leading '+' is skipped, '-' is no digit of an unsigned type, and a value
\* above 255 overflows
from_str_radix(src) ==
    IF src = <<>> \/ src = <<"+">> \/ src = <<"-">> THEN [ok |-> FALSE, val |-> 0]
    ELSE LET v == radix16(IF Head(src) = "+" THEN Tail(src) ELSE src, 0)
         IN  IF v < 0 \/ v > 255 THEN [ok |-> FALSE, val |-> 0]
             ELSE [ok |-> TRUE, val |-> v]

RECURSIVE parse_fields(_, _, _)
\* lines 27-30: data[k - 1] = u8::from_str_radix(&value[a..b], 16).map_err(..)?
\* for the fields k, k + 1, .. 4, then line 31
parse_fields(str, k, data) ==
    IF k > 4 THEN [tag |-> "Ok", data |-> data]
    ELSE LET a == 3 * (k - 1)
             b == a + 2
         IN  IF ~is_char_boundary(str, a) \/ ~is_char_boundary(str, b)
             THEN [tag |-> "Panic"]
             ELSE LET r == from_str_radix(str_slice(str, a, b))
                  IN  IF ~r.ok THEN [tag |-> "Err"]
                      ELSE parse_fields(str, k + 1, Append(data, r.val))

\* lines 23-32
try_from(str) ==
    IF byte_len(str) # 11 THEN [tag |-> "Err"] ELSE parse_fields(str, 1, <<>>)

\* the input strings: four fields joined by three separators
FieldText ==
    {<<"0", "a">>, <<"F", "0">>, <<"+", "a">>, <<"g", "0">>, <<"a">>,
     <<"a", "eacute">>, <<"eacute">>}
SeparatorText == {<<":">>, <<"-">>, <<>>}
AddressText ==
    {f[1] \o p[1] \o f[2] \o p[2] \o f[3] \o p[3] \o f[4] :
        f \in [1..4 -> FieldText], p \in [1..3 -> SeparatorText]}

AddrInit ==
    /\ value \in AddressText
    /\ parsed = [tag |-> "none"]
    /\ frames = <<>>
    /\ truth = EmptyMap
    /\ sent = 0
    /\ orch_pc = "done"
    /\ NoLoop
    /\ FacilityInit
    /\ BridgeInit

\* Address::try_from(value)
TryFrom ==
    /\ parsed.tag = "none"
    /\ parsed' = try_from(value)
    /\ UNCHANGED <<value, frames, truth, orchVars, inbox, outbox, bridgeVars,
                   facVars, histVars>>

AddrSpec == AddrInit /\ [][TryFrom]_vars


(***************************************************************************)
(* Counts over the history of the run.                                     *)
(***************************************************************************)
\* Requests carrying frame f that the bridge has processed
RequestCount(f) == CountSeq(LAMBDA r : r.ev = Request(f), processed)

\* Dispatch commands emitted for frame f, to any segment
DispatchCount(f) ==
    CountSeq(LAMBDA e : e.cmd.type = "Dispatch" /\ e.cmd.frame = f, emitted)

\* Discard commands emitted for frame f
DiscardCount(f) == CountSeq(LAMBDA e : e.cmd = Discard(f), emitted)

\* copies of frame f waiting in the Holder
HeldCount(f) ==
    IF f.dst \in DOMAIN pending
    THEN CountSeq(LAMBDA g : g = f, pending[f.dst]) ELSE 0

RequestsProcessed == CountSeq(LAMBDA r : r.ev.type = "Request", processed)
TerminalsEmitted ==
    CountSeq(LAMBDA e : e.cmd.type \in {"Dispatch", "Discard"}, emitted)

\* every frame value that occurs in a processed Request, in an emitted
\* command or in the Holder (all the counts above are 0 for any other frame)
FramesSeen ==
    {processed[i].ev.frame :
        i \in {j \in 1..Len(processed) : processed[j].ev.type = "Request"}}
    \cup {emitted[i].cmd.frame :
        i \in {j \in 1..Len(emitted) : emitted[j].cmd.type # "Broadcast"}}
    \cup UNION {{pending[d][i] : i \in 1..Len(pending[d])} : d \in DOMAIN pending}

\* Broadcast(d) commands emitted
BroadcastCount(d) == CountSeq(LAMBDA e : e.cmd = Broadcast(d), emitted)

\* Success(d, _) and Failure(d) events the bridge has processed
AnswerCount(d) ==
    CountSeq(LAMBDA r : r.ev.type \in {"Success", "Failure"} /\ r.ev.addr = d,
             processed)

\* probes for d emitted and not yet answered to the bridge
Outstanding(d) == BroadcastCount(d) - AnswerCount(d)

(***************************************************************************)
(* C1  Conservation (wired system, every interleaving): every Request the  *)
(* bridge has processed has exactly one terminal command (a Dispatch or a  *)
(* Discard, counted per frame value) or is still waiting in the Holder, so *)
(* Dispatch + Discard never exceeds the Requests processed; once the       *)
(* bridge has consumed Shutdown nothing is waiting and the two are equal,  *)
(* per frame and in total.                                                 *)
(***************************************************************************)
C1_Conservation ==
    /\ \A f \in FramesSeen :
          /\ RequestCount(f) = DispatchCount(f) + DiscardCount(f) + HeldCount(f)
          /\ bridge_pc = "done" =>
                RequestCount(f) = DispatchCount(f) + DiscardCount(f)
    /\ TerminalsEmitted <= RequestsProcessed
    /\ bridge_pc = "done" => TerminalsEmitted = RequestsProcessed

\* the bridge has consumed Shutdown after a run of MaxFrames requests in which
\* one frame value was requested twice, and both outcomes occurred
C1_Witness ==
    /\ bridge_pc = "done"
    /\ RequestsProcessed = MaxFrames
    /\ \E f \in Frame : RequestCount(f) = 2
    /\ \E f, g \in Frame : DispatchCount(f) > 0 /\ DiscardCount(g) > 0

(***************************************************************************)
(* C2  Shutdown liveness (wired system, fair scheduling of the three       *)
(* threads): for every frame sequence of length N >= 0 and every           *)
(* ground-truth map the facility's counter eventually reaches N, the       *)
(* facility sends Shutdown and returns, and the bridge consumes it.        *)
(* The facility compares cur_n with count only after a recv (lines 390,    *)
(* 414), so the run with no frames never gets there.                       *)
(***************************************************************************)
C2_ShutdownLiveness ==
    <>(cur_n = Len(frames) /\ fac_pc = "done" /\ bridge_pc = "done")

(***************************************************************************)
(* C3  Probe de-duplication (wired system): for every destination d at     *)
(* most one Broadcast(d) is unanswered, the Holder has key d exactly when  *)
(* one is, and no Broadcast(d) was emitted in a step that began with key d *)
(* in the Holder.                                                          *)
(***************************************************************************)
C3_ProbeDedup ==
    /\ \A d \in Address :
          /\ Outstanding(d) \in {0, 1}
          /\ d \in DOMAIN pending <=> Outstanding(d) = 1
    /\ \A i \in 1..Len(emitted) :
          emitted[i].cmd.type = "Broadcast" =>
              emitted[i].cmd.addr \notin processed[emitted[i].step].holding

\* a destination is probed for the second time (its first probe failed) and
\* a second frame joined the one that caused the probe
C3_Witness ==
    \E d \in Address :
        /\ BroadcastCount(d) = 2
        /\ Outstanding(d) = 1
        /\ d \in DOMAIN pending
        /\ Len(pending[d]) = 2


(***************************************************************************)
(* Views of single steps of the history.                                   *)
(***************************************************************************)
\* the commands the bridge sent in its k-th step, in sending order
StepCmds(k) ==
    LET sel == SelectSeq(emitted, LAMBDA e : e.step = k)
    IN  [i \in 1..Len(sel) |-> sel[i].cmd]

\* the k-th step handled a Request whose destination is d
IsRequestTo(k, d) ==
    processed[k].ev.type = "Request" /\ processed[k].ev.frame.dst = d

\* the k-th step handled Success(d, _) or Failure(d)
IsAnswerFor(k, d) ==
    processed[k].ev.type \in {"Success", "Failure"} /\ processed[k].ev.addr = d

\* the learning table as the k-th step left it
TableAfter(k) == IF k < Len(processed) THEN processed[k + 1].mapping ELSE mapping

\* the last n steps were all Requests to d
LastAreRequestsTo(n, d) ==
    \A k \in (Len(processed) - n + 1)..Len(processed) : IsRequestTo(k, d)

\* Broadcast(d) commands emitted during the last n steps
BroadcastsInLast(n, d) ==
    CountSeq(LAMBDA e : e.cmd = Broadcast(d) /\ e.step > Len(processed) - n,
             emitted)

(***************************************************************************)
(* C4  Probe count (bridge alone, every event sequence).                   *)
(*                                                                         *)
(* As claimed: for every destination d the number of Broadcast(d) emitted  *)
(* equals the number of Requests with dst = d received while d was in      *)
(* neither the learning table nor the Holder; and n consecutive Requests   *)
(* to a destination unknown at the first of them produce exactly one       *)
(* Broadcast and leave n frames held under it.                             *)
(***************************************************************************)
C4_ProbeCountAsClaimed ==
    \A d \in Address :
        /\ BroadcastCount(d) =
              CountSeq(LAMBDA r : /\ r.ev.type = "Request"
                                  /\ r.ev.frame.dst = d
                                  /\ d \notin DOMAIN r.mapping
                                  /\ d \notin r.holding,
                       processed)
        /\ \A n \in 1..Len(processed) :
              LET first == processed[Len(processed) - n + 1] IN
              (/\ LastAreRequestsTo(n, d)
               /\ d \notin DOMAIN first.mapping
               /\ d \notin first.holding)
              => /\ BroadcastsInLast(n, d) = 1
                 /\ d \in DOMAIN pending
                 /\ Len(pending[d]) = n

(***************************************************************************)
(* C4 as amended: the Requests that count are those with dst = d received  *)
(* while d was not in the Holder and not in the learning table as it       *)
(* stands after the Request's own source-learning step (d was not in the   *)
(* table when the Request was received and the frame's src is not d); and  *)
(* n consecutive Requests to such a destination, none of them sent by the  *)
(* destination itself, produce exactly one Broadcast and leave n frames    *)
(* held under it.                                                          *)
(***************************************************************************)
C4_ProbeCount ==
    \A d \in Address :
        /\ BroadcastCount(d) =
              CountSeq(LAMBDA r : /\ r.ev.type = "Request"
                                  /\ r.ev.frame.dst = d
                                  /\ d \notin DOMAIN r.mapping \cup {r.ev.frame.src}
                                  /\ d \notin r.holding,
                       processed)
        /\ \A n \in 1..Len(processed) :
              LET from == Len(processed) - n + 1 IN
              (/\ LastAreRequestsTo(n, d)
               /\ \A k \in from..Len(processed) : processed[k].ev.frame.src # d
               /\ d \notin DOMAIN processed[from].mapping
               /\ d \notin processed[from].holding)
              => /\ BroadcastsInLast(n, d) = 1
                 /\ d \in DOMAIN pending
                 /\ Len(pending[d]) = n

\* a frame an unknown address sent to itself was dispatched without a probe,
\* then three consecutive Requests to another unknown destination were held
\* behind a single Broadcast
C4_Witness ==
    \E d, x \in Address :
        /\ Len(processed) = 4
        /\ processed[1].ev.type = "Request"
        /\ processed[1].ev.frame.src = d
        /\ processed[1].ev.frame.dst = d
        /\ BroadcastCount(d) = 0
        /\ x # d
        /\ LastAreRequestsTo(3, x)
        /\ BroadcastCount(x) = 1
        /\ Len(pending[x]) = 3


(***************************************************************************)
(* The frames held for a destination, recovered from the history.          *)
(***************************************************************************)
\* the k-th step sent no Dispatch and no Discard: its Request was held
WasHeld(k) ==
    \A i \in 1..Len(StepCmds(k)) : StepCmds(k)[i].type = "Broadcast"

\* the last step before the k-th that handled an answer for d (0 if none)
LastAnswerBefore(d, k) ==
    LET S == {j \in 1..(k - 1) : IsAnswerFor(j, d)} \cup {0}
    IN  CHOOSE j \in S : \A i \in S : i <= j

RECURSIVE HeldFrames(_, _, _)
\* the frames of the held Requests to d among steps from..to, in step order
HeldFrames(d, from, to) ==
    IF from > to THEN <<>>
    ELSE (IF IsRequestTo(from, d) /\ WasHeld(from)
          THEN <<processed[from].ev.frame>> ELSE <<>>)
         \o HeldFrames(d, from + 1, to)

HeldSince(d, k) == HeldFrames(d, LastAnswerBefore(d, k) + 1, k - 1)

(***************************************************************************)
(* C5  Order preservation on release (bridge alone, every event            *)
(* sequence): the commands of a Success(d, s) step are Dispatch commands,  *)
(* those of a Failure(d) step are Discard commands, and their frames are   *)
(* exactly the frames of the Requests to d that were held since the        *)
(* previous answer for d, in the order in which those Requests were        *)
(* processed: none skipped, none duplicated.                               *)
(***************************************************************************)
C5_OrderPreservation ==
    \A k \in 1..Len(processed) :
        LET ev == processed[k].ev
            cmds == StepCmds(k)
        IN  ev.type \in {"Success", "Failure"} =>
              /\ \A i \in 1..Len(cmds) :
                    cmds[i].type = IF ev.type = "Success" THEN "Dispatch" ELSE "Discard"
              /\ [i \in 1..Len(cmds) |-> cmds[i].frame] = HeldSince(ev.addr, k)

\* a Success released three held frames, no two of them equal
C5_Witness ==
    \E k \in 1..Len(processed) :
        /\ processed[k].ev.type = "Success"
        /\ Len(StepCmds(k)) = 3
        /\ Cardinality({StepCmds(k)[i].frame : i \in 1..3}) = 3


(***************************************************************************)
(* C6  Learning monotonicity (bridge alone, every event sequence): no step *)
(* removes a key of the learning table, so its size never decreases.       *)
(***************************************************************************)
C6_LearningMonotone ==
    [][/\ DOMAIN mapping \subseteq DOMAIN mapping'
       /\ Cardinality(DOMAIN mapping) <= Cardinality(DOMAIN mapping')]_vars

\* the bridge has handled a Request, a Success, a Failure for an address
\* that was in the table, and Shutdown, and the table is not empty
C6_Witness ==
    /\ bridge_pc = "done"
    /\ DOMAIN mapping # {}
    /\ \E i, j, k \in 1..Len(processed) :
          /\ processed[i].ev.type = "Request"
          /\ processed[j].ev.type = "Success"
          /\ processed[k].ev.type = "Failure"
          /\ processed[k].ev.addr \in DOMAIN processed[k].mapping

(***************************************************************************)
(* C7  Source learning is first-wins (bridge alone, every event            *)
(* sequence): a Request never changes the segment of an address that was   *)
(* already in the learning table, and an address a inserted by a Request   *)
(* with src = a, src_seg = g still maps to g as long as no Success(a, _)   *)
(* has been processed since.                                               *)
(***************************************************************************)
C7_FirstWins ==
    \A k \in 1..Len(processed) :
        processed[k].ev.type = "Request" =>
            LET before == processed[k].mapping
                a == processed[k].ev.frame.src
                g == processed[k].ev.frame.src_seg
            IN  /\ \A b \in DOMAIN before :
                      /\ b \in DOMAIN TableAfter(k)
                      /\ TableAfter(k)[b] = before[b]
                /\ (/\ a \notin DOMAIN before
                    /\ \A j \in (k + 1)..Len(processed) :
                          ~(processed[j].ev.type = "Success" /\ processed[j].ev.addr = a))
                   => (a \in DOMAIN mapping /\ mapping[a] = g)

\* an address learned from one Request was the src of a later Request that
\* carried another segment, and the table still has the first segment
C7_Witness ==
    \E k, j \in 1..Len(processed) :
        /\ k < j
        /\ processed[k].ev.type = "Request"
        /\ processed[j].ev.type = "Request"
        /\ processed[k].ev.frame.src \notin DOMAIN processed[k].mapping
        /\ processed[j].ev.frame.src = processed[k].ev.frame.src
        /\ processed[j].ev.frame.src_seg # processed[k].ev.frame.src_seg
        /\ mapping[processed[k].ev.frame.src] = processed[k].ev.frame.src_seg


(***************************************************************************)
(* Single bridge steps as actions.                                         *)
(***************************************************************************)
\* this step is a completed bridge step that handled an event of this type
Handled(type) ==
    /\ Len(processed') = Len(processed) + 1
    /\ processed'[Len(processed')].ev.type = type

\* the event the step handled
HandledEvent == processed'[Len(processed')].ev

\* the frames waiting under a before the step
Waiting(a) == IF a \in DOMAIN pending THEN pending[a] ELSE <<>>

\* the step left every Holder entry other than a's as it was
OthersUntouched(a) ==
    /\ DOMAIN pending' \ {a} = DOMAIN pending \ {a}
    /\ \A d \in DOMAIN pending \ {a} : pending'[d] = pending[d]

(***************************************************************************)
(* C8  Success step (bridge alone, every event sequence): after the bridge *)
(* handled Success(a, s), mapping[a] = s whatever was learned for a        *)
(* before, the Holder has no key a, the commands sent in the step are      *)
(* exactly Dispatch(frame, s) for each frame that waited under a, and the  *)
(* frames waiting under other destinations are untouched.                  *)
(***************************************************************************)
C8_SuccessStep ==
    [][Handled("Success") =>
         LET a == HandledEvent.addr
             s == HandledEvent.seg
         IN  /\ a \in DOMAIN mapping'
             /\ mapping'[a] = s
             /\ a \notin DOMAIN pending'
             /\ outbox' = outbox \o
                    [i \in 1..Len(Waiting(a)) |-> Dispatch(Waiting(a)[i], s)]
             /\ OthersUntouched(a)]_vars

\* the last step handled Success(a, s) while the table held another segment
\* for a, frames waited under a and frames wait under another destination
C8_Witness ==
    /\ processed # <<>>
    /\ LET final == processed[Len(processed)] IN
         /\ final.ev.type = "Success"
         /\ final.ev.addr \in DOMAIN final.mapping
         /\ final.mapping[final.ev.addr] # final.ev.seg
         /\ mapping[final.ev.addr] = final.ev.seg
         /\ final.ev.addr \in final.holding
         /\ Len(StepCmds(Len(processed))) >= 1
         /\ DOMAIN pending # {}

(***************************************************************************)
(* C9  Failure step (bridge alone, every event sequence): when the bridge  *)
(* handles Failure(a) it sends exactly Discard(frame) for each frame that  *)
(* waited under a, removes key a from the Holder, and leaves the learning  *)
(* table and the frames waiting under other destinations as they were.     *)
(***************************************************************************)
C9_FailureStep ==
    [][Handled("Failure") =>
         LET a == HandledEvent.addr
         IN  /\ outbox' = outbox \o
                    [i \in 1..Len(Waiting(a)) |-> Discard(Waiting(a)[i])]
             /\ a \notin DOMAIN pending'
             /\ mapping' = mapping
             /\ OthersUntouched(a)]_vars

\* the last step handled Failure(a) and discarded two frames while the
\* table was not empty and frames wait under another destination
C9_Witness ==
    /\ processed # <<>>
    /\ LET final == processed[Len(processed)] IN
         /\ final.ev.type = "Failure"
         /\ final.ev.addr \in final.holding
         /\ Len(StepCmds(Len(processed))) = 2
         /\ DOMAIN mapping # {}
         /\ DOMAIN pending # {}

(***************************************************************************)
(* C10  Direct dispatch (bridge alone, every event sequence): when the     *)
(* bridge handles Request(frame) and the learning table, as the step's     *)
(* source learning leaves it, maps frame.dst to seg, the step sends        *)
(* exactly Dispatch(frame, seg), appends exactly one Dispatch record to    *)
(* the statistics, and leaves the Holder and the pending-depth samples     *)
(* unchanged.                                                              *)
(***************************************************************************)
C10_DirectDispatch ==
    [][(Handled("Request") /\ HandledEvent.frame.dst \in DOMAIN mapping') =>
         LET frame == HandledEvent.frame
             seg == mapping'[frame.dst]
         IN  /\ outbox' = Append(outbox, Dispatch(frame, seg))
             /\ stat' = Append(stat, StatRecord("Dispatch", frame))
             /\ pending' = pending
             /\ pending_stat' = pending_stat]_vars

\* after Request(src = A, src_seg = S1, dst = B) was held, a Request(src = B,
\* dst = A) was dispatched at once to S1 and B's frame still waits
C10_Witness ==
    /\ Len(processed) = 2
    /\ processed[1].ev.type = "Request"
    /\ processed[2].ev.type = "Request"
    /\ LET f1 == processed[1].ev.frame
           f2 == processed[2].ev.frame
       IN  /\ f1.src # f1.dst
           /\ f2.src = f1.dst
           /\ f2.dst = f1.src
           /\ f2.src_seg # f1.src_seg
           /\ StepCmds(1) = <<Broadcast(f1.dst)>>
           /\ StepCmds(2) = <<Dispatch(f2, f1.src_seg)>>
           /\ pending[f1.dst] = <<f1>>
           /\ pending_stat = <<0>>

(***************************************************************************)
(* C11  Holder emptiness at end (wired system, every interleaving): once   *)
(* the bridge has consumed Shutdown, the Holder has no entry for any       *)
(* destination for which the bridge processed a Success or a Failure       *)
(* during the run.                                                         *)
(***************************************************************************)
C11_HolderEmptyAtEnd ==
    bridge_pc = "done" =>
        \A d \in Address : AnswerCount(d) > 0 => d \notin DOMAIN pending

\* the bridge has consumed Shutdown after a run in which a Success released
\* two held frames of one destination and a Failure released a frame of
\* another
C11_Witness ==
    /\ bridge_pc = "done"
    /\ \E j, k \in 1..Len(processed) :
          /\ processed[j].ev.type = "Success"
          /\ Len(StepCmds(j)) = 2
          /\ processed[k].ev.type = "Failure"
          /\ Len(StepCmds(k)) = 1

(***************************************************************************)
(* C12  Orchestrator delivery (orchestrator alone, every frame sequence,   *)
(* every cut of it into buckets and every non-decreasing schedule of clock *)
(* readings): the Requests sent so far are the first `sent` frames of the  *)
(* input in input order, the buckets sum up to the input, the buckets      *)
(* replayed so far are buckets 1, 2, ... in order, each once, and when the *)
(* orchestrator has left its loop every bucket and every frame has been    *)
(* sent: total sent = N.                                                   *)
(***************************************************************************)
C12_Delivery ==
    /\ sent = Len(inbox)
    /\ inbox = [i \in 1..sent |-> Request(frames[i])]
    /\ flushed = [i \in 1..Len(flushed) |-> i]
    /\ orch_pc \in {"run", "done"} =>
          /\ Len(buckets) = NumBuckets
          /\ Concat(buckets) = frames
          /\ sent = Len(Concat(SubSeq(buckets, 1, Len(flushed))))
    /\ orch_pc = "done" =>
          /\ sent = Len(frames)
          /\ Len(flushed) = NumBuckets

\* MaxFrames frames, no two equal, cut into at least two non-empty buckets,
\* were all sent by an orchestrator whose clock jumped past the end of the
\* window after it had replayed the first bucket only
C12_Witness ==
    /\ orch_pc = "done"
    /\ last = 1
    /\ cur = MaxClock
    /\ Len(frames) = MaxFrames
    /\ Cardinality({frames[i] : i \in 1..Len(frames)}) = MaxFrames
    /\ Cardinality({i \in 1..Len(buckets) : buckets[i] # <<>>}) >= 2

(***************************************************************************)
(* Views of the statistics records.                                        *)
(***************************************************************************)
\* record j is a Dispatch or a Discard record
IsTerminalRecord(j) == stat[j].kind \in {"Dispatch", "Discard"}

\* the positions before j of the Broadcast records of record j's frame value
BroadcastsBefore(j) ==
    {i \in 1..(j - 1) : stat[i] = StatRecord("Broadcast", stat[j].frame)}

\* the Broadcast records of record j's frame value that no terminal record
\* of that frame value follows before j
OpenBroadcasts(j) ==
    {i \in BroadcastsBefore(j) :
        \A k \in (i + 1)..(j - 1) :
            IsTerminalRecord(k) => stat[k].frame # stat[j].frame}

\* the terminal records that find a Broadcast of their frame value still open
PairedTerminals ==
    {j \in 1..Len(stat) : IsTerminalRecord(j) /\ OpenBroadcasts(j) # {}}

(***************************************************************************)
(* C13  Latency export count (bridge alone, every event sequence).         *)
(*                                                                         *)
(* As claimed: the number of entries written by the latency exporter at    *)
(* Shutdown equals the number of terminal records (Dispatch or Discard)    *)
(* whose frame appeared as a prior Broadcast record in the statistics,     *)
(* also when two frames with identical src, src_seg, dst and data occur.   *)
(***************************************************************************)
C13_LatencyCountAsClaimed ==
    bridge_pc = "done" =>
        Len(sc_latency) =
            Cardinality({j \in 1..Len(stat) :
                            IsTerminalRecord(j) /\ BroadcastsBefore(j) # {}})

(***************************************************************************)
(* C13 as amended: the entries written at Shutdown are, in record order,   *)
(* one for each terminal record whose frame value has an earlier Broadcast *)
(* record with no terminal record of the same frame value in between; the  *)
(* entry starts at the latest such Broadcast.  A terminal record whose     *)
(* frame value has no Broadcast record before it contributes no entry.     *)
(***************************************************************************)
C13_LatencyCount ==
    bridge_pc = "done" =>
        /\ Len(sc_latency) = Cardinality(PairedTerminals)
        /\ \A n \in 1..Len(sc_latency) :
              LET begin == sc_latency[n][1]
                  j == sc_latency[n][1] + sc_latency[n][2]
              IN  /\ j \in PairedTerminals
                  /\ begin \in OpenBroadcasts(j)
                  /\ \A i \in OpenBroadcasts(j) : i <= begin
                  /\ \A m \in 1..(n - 1) : sc_latency[m][1] + sc_latency[m][2] < j
        /\ \A j \in 1..Len(stat) :
              (IsTerminalRecord(j) /\ BroadcastsBefore(j) = {}) =>
                  \A n \in 1..Len(sc_latency) : sc_latency[n][1] + sc_latency[n][2] # j

\* two Requests carrying the same frame value were held and released
\* together: two terminal records follow Broadcast records of their frame,
\* one entry was written, and it starts at the second Broadcast
C13_Witness ==
    /\ bridge_pc = "done"
    /\ Len(stat) = 4
    /\ stat[1].kind = "Broadcast"
    /\ stat[2] = stat[1]
    /\ stat[3].kind = "Dispatch"
    /\ stat[3].frame = stat[1].frame
    /\ stat[4] = stat[3]
    /\ sc_latency = <<<<2, 1>>>>

(***************************************************************************)
(* The textual form xx:xx:xx:xx.                                           *)
(***************************************************************************)
\* characters i and i + 1 of the string are two hexadecimal digits
IsHexField(str, i) == HexVal(str[i]) >= 0 /\ HexVal(str[i + 1]) >= 0

\* the string has 11 characters: four fields of two hexadecimal digits with
\* a colon after each of the first three
IsAddressText(str) ==
    /\ Len(str) = 11
    /\ \A k \in 0..3 : IsHexField(str, 3 * k + 1)
    /\ \A k \in 1..3 : str[3 * k] = ":"

(***************************************************************************)
(* C14  Address parsing rejection (every input string): try_from returns   *)
(* an error for every string whose length is not 11 and for every string   *)
(* of 11 characters in which one of the four fields (characters 0-1, 3-4,  *)
(* 6-7, 9-10) is not two hexadecimal digits, and it returns Ok only for    *)
(* strings of the form xx:xx:xx:xx.  The code compares the length in       *)
(* bytes, never looks at the separators, lets from_str_radix accept a sign *)
(* and indexes by bytes, so the statement does not hold.                   *)
(***************************************************************************)
C14_ParseRejects ==
    parsed.tag # "none" =>
        /\ Len(value) # 11 => parsed.tag = "Err"
        /\ (Len(value) = 11 /\ \E k \in 0..3 : ~IsHexField(value, 3 * k + 1))
              => parsed.tag = "Err"
        /\ parsed.tag = "Ok" => IsAddressText(value)

(***************************************************************************)
(* C15  Release safety under interleaving (wired system, every             *)
(* interleaving of the three threads): whenever the bridge processes       *)
(* Success(a, s) or Failure(a), a Request to a that emitted Broadcast(a)   *)
(* was processed after the previous answer for a, the Holder has key a at  *)
(* that moment and the step releases at least one frame: the bridge never  *)
(* releases a key that is not there.                                       *)
(***************************************************************************)
C15_ReleaseSafety ==
    \A k \in 1..Len(processed) :
        processed[k].ev.type \in {"Success", "Failure"} =>
            LET a == processed[k].ev.addr IN
            /\ a \in processed[k].holding
            /\ StepCmds(k) # <<>>
            /\ \E j \in (LastAnswerBefore(a, k) + 1)..(k - 1) :
                  /\ IsRequestTo(j, a)
                  /\ StepCmds(j) = <<Broadcast(a)>>

\* the answer for a arrived after the bridge had gone on to hold a frame for
\* another destination b, and released the two frames waiting under a
C15_Witness ==
    \E k \in 3..Len(processed) :
        /\ processed[k].ev.type \in {"Success", "Failure"}
        /\ Len(StepCmds(k)) = 2
        /\ processed[k - 1].ev.type = "Request"
        /\ processed[k - 1].ev.frame.dst # processed[k].ev.addr
        /\ StepCmds(k - 1) = <<Broadcast(processed[k - 1].ev.frame.dst)>>

(***************************************************************************)
(* The frames waiting for a destination, recovered from the log of Holder  *)
(* calls.                                                                  *)
(***************************************************************************)
\* the last call that released d (0 if none)
LastReleaseOf(d) ==
    LET S == {j \in 1..Len(processed) :
                 processed[j].op = "release" /\ processed[j].addr = d} \cup {0}
    IN  CHOOSE j \in S : \A i \in S : i <= j

\* the frames with dst = d passed to hold since d was last released, in
\* call order
WaitingFor(d) ==
    LET at == SelectSeq([i \in 1..Len(processed) |-> i],
                        LAMBDA i : /\ i > LastReleaseOf(d)
                                   /\ processed[i].op = "hold"
                                   /\ processed[i].frame.dst = d)
    IN  [n \in 1..Len(at) |-> processed[at[n]].frame]

(***************************************************************************)
(* C16  Holder well-formedness (Holder alone, every sequence of hold and   *)
(* release calls): a key d is present exactly when at least one frame is   *)
(* waiting under d, no key maps to an empty sequence, the frames stored    *)
(* under d are the waiting frames in call order and all have dst = d, and  *)
(* len() is the number of destinations with waiting frames.                *)
(***************************************************************************)
C16_HolderWellFormed ==
    /\ \A d \in Address :
          /\ d \in DOMAIN pending <=> WaitingFor(d) # <<>>
          /\ d \in DOMAIN pending =>
                /\ pending[d] # <<>>
                /\ pending[d] = WaitingFor(d)
                /\ \A i \in 1..Len(pending[d]) : pending[d][i].dst = d
    /\ DOMAIN pending \subseteq Address
    /\ len(pending) = Cardinality({d \in Address : WaitingFor(d) # <<>>})

\* a destination was held, released with its frame, and held again twice
\* while another destination has never had a frame
C16_Witness ==
    \E d \in Address :
        /\ Len(processed) = 4
        /\ processed[2].op = "release"
        /\ processed[2].addr = d
        /\ processed[2].out # <<>>
        /\ d \in DOMAIN pending
        /\ Len(pending[d]) = 2
        /\ len(pending) = 1

(***************************************************************************)
(* Steps that change the Holder, seen as actions.                          *)
(***************************************************************************)
\* records of this kind for frame f in the statistics
StatCount(kind, f) == CountSeq(LAMBDA r : r = StatRecord(kind, f), stat)

\* a step that lengthens the sequence under a key (or creates the key)
\* pushes one frame at its end and appends the Broadcast record of that
\* frame to the statistics
EnqueueRecorded ==
    \A d \in DOMAIN pending' :
        Len(pending'[d]) > Len(Waiting(d)) =>
            /\ Len(pending'[d]) = Len(Waiting(d)) + 1
            /\ SubSeq(pending'[d], 1, Len(Waiting(d))) = Waiting(d)
            /\ stat' = Append(stat,
                   StatRecord("Broadcast", pending'[d][Len(pending'[d])]))

\* frames leave the Holder only with their whole key, and the step that
\* removes a key appends one record per frame, all Dispatch or all Discard
RemovalRecorded ==
    /\ \A d \in DOMAIN pending \cap DOMAIN pending' :
          Len(pending'[d]) >= Len(pending[d])
    /\ \A d \in DOMAIN pending \ DOMAIN pending' :
          \E kind \in {"Dispatch", "Discard"} :
              stat' = stat \o
                  [i \in 1..Len(pending[d]) |-> StatRecord(kind, pending[d][i])]

(***************************************************************************)
(* C17  Held-frame lifecycle (wired system, fair scheduling of the three   *)
(* threads): every frame in the Holder has a Broadcast record in the       *)
(* statistics, appended by the step that enqueued it; frames leave the     *)
(* Holder only in a step that records each of them as Dispatch or          *)
(* Discard; and from some point on the Holder is empty for good, so every  *)
(* destination that has frames waiting eventually has none and no frame    *)
(* stays held forever.                                                     *)
(***************************************************************************)
C17_HeldLifecycle ==
    /\ [](\A f \in FramesSeen : HeldCount(f) <= StatCount("Broadcast", f))
    /\ [][EnqueueRecorded /\ RemovalRecorded]_vars
    /\ <>[](pending = EmptyMap)

\* two frames were held for two destinations, one was later dispatched and
\* the other discarded, and nothing is waiting any more
C17_Witness ==
    /\ pending = EmptyMap
    /\ \E f, g \in Frame :
          /\ f.dst # g.dst
          /\ StatCount("Broadcast", f) = 1
          /\ StatCount("Dispatch", f) = 1
          /\ StatCount("Broadcast", g) = 1
          /\ StatCount("Discard", g) = 1
          /\ pending_stat # <<>>

(***************************************************************************)
(* C18  Pending-depth sampling point (bridge alone, every event sequence): *)
(* a Request that is held, under a new key or an existing one, appends     *)
(* exactly one sample, the number of Holder keys just before its frame is  *)
(* pushed; a Success and a Failure append exactly one sample, the number   *)
(* of Holder keys after the release; a Request that is dispatched directly *)
(* and Shutdown append none.                                               *)
(***************************************************************************)
C18_SamplingPoint ==
    [][/\ (Handled("Request") /\ pending' # pending) =>
              pending_stat' = Append(pending_stat, Cardinality(DOMAIN pending))
       /\ (Handled("Request") /\ pending' = pending) =>
              pending_stat' = pending_stat
       /\ (Handled("Success") \/ Handled("Failure")) =>
              pending_stat' = Append(pending_stat, Cardinality(DOMAIN pending'))
       /\ Handled("Shutdown") => pending_stat' = pending_stat]_vars

\* a Request opened a key (sample 0), a second one joined it (sample 1), a
\* third opened another key (sample 1), and the answer for the first key
\* left one key behind (sample 1)
C18_Witness ==
    /\ Len(processed) = 4
    /\ \A k \in 1..3 : processed[k].ev.type = "Request"
    /\ processed[2].ev.frame.dst = processed[1].ev.frame.dst
    /\ processed[3].ev.frame.dst # processed[1].ev.frame.dst
    /\ IsAnswerFor(4, processed[1].ev.frame.dst)
    /\ pending_stat = <<0, 1, 1, 1>>

(***************************************************************************)
(* Views of the facility's history.                                        *)
(***************************************************************************)
\* the positions in consumed of the Broadcast commands, in order
ProbesConsumed ==
    SelectSeq([i \in 1..Len(consumed) |-> i],
              LAMBDA i : consumed[i].type = "Broadcast")

\* the Success and Failure events the facility sent, in sending order
AnswersSent == SelectSeq(replied, LAMBDA r : r.ev.type \in {"Success", "Failure"})

\* the events the facility sent while handling its i-th command
RepliesAt(i) == SelectSeq(replied, LAMBDA r : r.at = i)

\* the Shutdown events the facility sent
ShutdownsSent == SelectSeq(replied, LAMBDA r : r.ev = Shutdown)

\* Dispatch and Discard commands among the first i the facility consumed
TerminalsConsumed(i) ==
    CountSeq(LAMBDA c : c.type \in {"Dispatch", "Discard"}, SubSeq(consumed, 1, i))

(***************************************************************************)
(* C19  Facility probe answer (wired system, every interleaving): while    *)
(* handling a Broadcast(addr) the facility sends exactly one event,        *)
(* Success(addr, seg) when the ground-truth map has addr -> seg and        *)
(* Failure(addr) otherwise; it sends no Success or Failure while handling  *)
(* any other command; the n-th answer belongs to the n-th Broadcast        *)
(* consumed; and what it sends is appended to the Event channel in that    *)
(* order.                                                                  *)
(***************************************************************************)
C19_ProbeAnswer ==
    /\ [](/\ Len(AnswersSent) = Len(ProbesConsumed)
          /\ \A n \in 1..Len(AnswersSent) :
                LET i == ProbesConsumed[n]
                    addr == consumed[i].addr
                IN  /\ AnswersSent[n].at = i
                    /\ RepliesAt(i) = <<AnswersSent[n]>>
                    /\ AnswersSent[n].ev =
                          IF addr \in DOMAIN truth
                          THEN [type |-> "Success", addr |-> addr, seg |-> truth[addr]]
                          ELSE [type |-> "Failure", addr |-> addr])
    /\ [][Len(replied') > Len(replied) =>
            inbox' = inbox \o
                [i \in 1..(Len(replied') - Len(replied)) |->
                    replied'[Len(replied) + i].ev]]_vars

\* the facility answered a probe for an address the ground truth lacks with
\* Failure and a later probe for an address it has with Success, and
\* consumed a terminal command in between
C19_Witness ==
    /\ Len(AnswersSent) = 2
    /\ AnswersSent[1].ev.type = "Failure"
    /\ AnswersSent[2].ev.type = "Success"
    /\ AnswersSent[2].at > AnswersSent[1].at + 1

(***************************************************************************)
(* C20  Facility shutdown trigger (wired system, every interleaving): the  *)
(* facility sends Shutdown at most once, only while handling the command   *)
(* that brings the number of Dispatch and Discard commands consumed to     *)
(* expected_count (the number of input frames), never while fewer have     *)
(* been consumed, and it consumes no command after sending it.             *)
(***************************************************************************)
C20_ShutdownTrigger ==
    /\ Len(ShutdownsSent) <= 1
    /\ cur_n = TerminalsConsumed(Len(consumed))
    /\ cur_n <= Len(frames)
    /\ \A n \in 1..Len(ShutdownsSent) :
          /\ TerminalsConsumed(ShutdownsSent[n].at) = Len(frames)
          /\ ShutdownsSent[n].at = Len(consumed)
          /\ fac_pc = "done"
    /\ \A i \in 1..Len(consumed) :
          TerminalsConsumed(i) < Len(frames) =>
              \A j \in 1..Len(RepliesAt(i)) : RepliesAt(i)[j].ev # Shutdown
    /\ fac_pc = "done" => Len(ShutdownsSent) = 1

\* the facility sent Shutdown after it had consumed a Broadcast, a Dispatch
\* and a Discard in a run of MaxFrames frames, and the bridge has consumed it
C20_Witness ==
    /\ Len(ShutdownsSent) = 1
    /\ Len(frames) = MaxFrames
    /\ \E i, j, k \in 1..Len(consumed) :
          /\ consumed[i].type = "Broadcast"
          /\ consumed[j].type = "Dispatch"
          /\ consumed[k].type = "Discard"
    /\ fac_pc = "done"
    /\ bridge_pc = "done"

(***************************************************************************)
(* C21  Bridge termination (wired system, every interleaving): the bridge  *)
(* has stopped exactly when the last event it processed is Shutdown, and   *)
(* Shutdown is the only event that stops it; the step that consumes        *)
(* Shutdown exports the statistics once (the latency entries are those of  *)
(* the records collected) and sends no command; once stopped the bridge    *)
(* processes no event, sends no command and changes nothing; and when      *)
(* Shutdown is consumed no Request, Success or Failure is left in the      *)
(* Event channel.                                                          *)
(***************************************************************************)
C21_BridgeTermination ==
    /\ [](/\ bridge_pc \in {"run", "done"}
          /\ bridge_pc = "done" <=>
                (processed # <<>> /\ processed[Len(processed)].ev = Shutdown)
          /\ \A k \in 1..(Len(processed) - 1) : processed[k].ev # Shutdown
          /\ exports = IF bridge_pc = "done" THEN 1 ELSE 0
          /\ bridge_pc = "done" => inbox = <<>>)
    /\ [][Handled("Shutdown") =>
            /\ bridge_pc = "run"
            /\ bridge_pc' = "done"
            /\ exports' = exports + 1
            /\ sc_latency' = export_latency_scatter(stat)
            /\ inbox' = <<>>
            /\ UNCHANGED <<outbox, emitted, mapping, pending, stat, pending_stat>>]_vars
    /\ [][bridge_pc = "done" =>
            UNCHANGED <<bridgeVars, processed, emitted, outbox, inbox>>]_vars

\* the bridge has stopped after MaxFrames Requests and two answers; the
\* orchestrator and the facility have returned as well, and the export
\* wrote a latency entry
C21_Witness ==
    /\ bridge_pc = "done"
    /\ exports = 1
    /\ RequestsProcessed = MaxFrames
    /\ Len(processed) = MaxFrames + 3
    /\ sc_latency # <<>>
    /\ orch_pc = "done"
    /\ fac_pc = "done"

(***************************************************************************)
(* C22  No send to a departed receiver (wired system, every                *)
(* interleaving): no send fails, so no thread panics; the bridge sends a   *)
(* Command only while the facility is running, never after the facility    *)
(* sent Shutdown and returned; and the orchestrator and the facility send  *)
(* an Event only while the bridge is running, never after it returned.     *)
(***************************************************************************)
C22_NoFailedSend ==
    /\ [](orch_pc # "panic" /\ bridge_pc # "panic" /\ fac_pc # "panic")
    /\ [][emitted' # emitted => (fac_pc = "run" /\ ShutdownsSent = <<>>)]_vars
    /\ [][(sent' # sent \/ replied' # replied) => bridge_pc = "run"]_vars
    /\ [][outbox' # outbox => fac_pc = "run"]_vars
    /\ [][inbox' # inbox => bridge_pc = "run"]_vars

\* the three threads have returned after the orchestrator sent MaxFrames
\* Requests, the bridge sent two Broadcasts and MaxFrames terminal commands,
\* and the facility sent two answers and Shutdown
C22_Witness ==
    /\ orch_pc = "done"
    /\ bridge_pc = "done"
    /\ fac_pc = "done"
    /\ sent = MaxFrames
    /\ Len(emitted) = MaxFrames + 2
    /\ Len(replied) = 3

(***************************************************************************)
(* Frames with destination d, by history: of the Requests processed, of    *)
(* the terminal commands emitted, and each split by whether the frame was  *)
(* held (d neither in the table nor the frame's own source when the        *)
(* Request was received) or dispatched in the Request step itself.         *)
(***************************************************************************)
IsTerminalFor(e, d) ==
    e.cmd.type \in {"Dispatch", "Discard"} /\ e.cmd.frame.dst = d

HeldAt(r) ==
    /\ r.ev.frame.dst \notin DOMAIN r.mapping
    /\ r.ev.frame.dst # r.ev.frame.src

RequestFrames(d) ==
    LET sel == SelectSeq(processed,
                   LAMBDA r : r.ev.type = "Request" /\ r.ev.frame.dst = d)
    IN  [i \in 1..Len(sel) |-> sel[i].ev.frame]

HeldRequestFrames(d) ==
    LET sel == SelectSeq(processed,
                   LAMBDA r : r.ev.type = "Request" /\ r.ev.frame.dst = d
                              /\ HeldAt(r))
    IN  [i \in 1..Len(sel) |-> sel[i].ev.frame]

DirectRequestFrames(d) ==
    LET sel == SelectSeq(processed,
                   LAMBDA r : r.ev.type = "Request" /\ r.ev.frame.dst = d
                              /\ ~HeldAt(r))
    IN  [i \in 1..Len(sel) |-> sel[i].ev.frame]

TerminalFrames(d) ==
    LET sel == SelectSeq(emitted, LAMBDA e : IsTerminalFor(e, d))
    IN  [i \in 1..Len(sel) |-> sel[i].cmd.frame]

ReleasedFrames(d) ==
    LET sel == SelectSeq(emitted,
                   LAMBDA e : IsTerminalFor(e, d)
                              /\ processed[e.step].ev.type # "Request")
    IN  [i \in 1..Len(sel) |-> sel[i].cmd.frame]

DirectFrames(d) ==
    LET sel == SelectSeq(emitted,
                   LAMBDA e : IsTerminalFor(e, d)
                              /\ processed[e.step].ev.type = "Request")
    IN  [i \in 1..Len(sel) |-> sel[i].cmd.frame]

\* s can be obtained from t by leaving elements out
RECURSIVE IsSubseqOf(_, _)
IsSubseqOf(s, t) ==
    IF s = <<>> THEN TRUE
    ELSE IF t = <<>> THEN FALSE
    ELSE IF Head(s) = Head(t) THEN IsSubseqOf(Tail(s), Tail(t))
    ELSE IsSubseqOf(s, Tail(t))

(***************************************************************************)
(* C23  Per-destination delivery order, as claimed (bridge alone, every    *)
(* event sequence): for every destination d the frames of the terminal     *)
(* commands (Dispatch or Discard) emitted for d are in the order in which  *)
(* the Requests for d arrived, held and directly dispatched ones alike.    *)
(***************************************************************************)
C23_DeliveryOrderAsClaimed ==
    \A d \in Address : IsSubseqOf(TerminalFrames(d), RequestFrames(d))

(***************************************************************************)
(* C23  Per-destination delivery order, amended (bridge alone, every event *)
(* sequence): for every destination d, the frames for d that were held     *)
(* leave the bridge in the order of their Requests (those released so far, *)
(* followed by those still waiting under d, are the held Requests for d in *)
(* arrival order), and the frames for d dispatched in their own Request    *)
(* step are the Requests for d that found d in the table or carried d as   *)
(* their source, in arrival order.  A held frame and a directly dispatched *)
(* one are not ordered against each other.                                 *)
(***************************************************************************)
C23_DeliveryOrder ==
    \A d \in Address :
        /\ HeldRequestFrames(d) =
               ReleasedFrames(d) \o (IF d \in DOMAIN pending THEN pending[d] ELSE <<>>)
        /\ DirectFrames(d) = DirectRequestFrames(d)

\* a frame for d was held, d was then learned as the source of another
\* Request, a later frame for d was dispatched in its own step, and an answer
\* for d released the held frame after it
C23_Witness ==
    \E d \in Address : \E i, j, k \in 1..Len(processed) :
        /\ i < j /\ j < k
        /\ IsRequestTo(i, d) /\ HeldAt(processed[i])
        /\ IsRequestTo(j, d) /\ ~HeldAt(processed[j])
        /\ processed[i].ev.frame # processed[j].ev.frame
        /\ IsAnswerFor(k, d)
        /\ TerminalFrames(d) = <<processed[j].ev.frame, processed[i].ev.frame>>

\* the terminal commands emitted so far
IsTerminal(e) == e.cmd.type \in {"Dispatch", "Discard"}

\* the steps up to k whose Request carried d as its source
SourceSteps(d, k) ==
    {j \in 1..k : processed[j].ev.type = "Request" /\ processed[j].ev.frame.src = d}

\* the segment source learning gave d: the src_seg of the first such Request
SourceLearned(d, k) ==
    LET first == CHOOSE j \in SourceSteps(d, k) : \A i \in SourceSteps(d, k) : j <= i
    IN  processed[first].ev.frame.src_seg

DispatchesTo(d) ==
    CountSeq(LAMBDA e : e.cmd.type = "Dispatch" /\ e.cmd.frame.dst = d, emitted)

DiscardsTo(d) ==
    CountSeq(LAMBDA e : e.cmd.type = "Discard" /\ e.cmd.frame.dst = d, emitted)

=============================================================================
